---- MODULE Spec2Model ----
(***************************************************************************)
(* Model of gen_qr_urls.py: the Garsone QR tile code generator.            *)
(*                                                                         *)
(* Strings are sequences of one-character strings, so that slicing,        *)
(* strip(), upper(), startswith() and line splitting are computed the way  *)
(* the Python code computes them.  The output file is a record holding     *)
(* whether the path exists and the characters it contains.                 *)
(***************************************************************************)
EXTENDS Integers, Sequences, FiniteSets, TLC

(***************************************************************************)
(* Bounds of the model.                                                    *)
(***************************************************************************)
\* secrets.randbits(40) is drawn from 0 .. MaxValue in generate
MaxValue == 1
\* the -n argument ranges over -1 .. MaxCount
MaxCount == 3
\* the prior file content holds at most MaxLines lines
MaxLines == 1
\* random_crockford is exercised on its own for n in 1 .. MaxN
MaxN == 2

(***************************************************************************)
(* Program constants.                                                      *)
(***************************************************************************)
\* generate: random_crockford(8)
NChars == 8
\* random_crockford: n_bits = n_chars * 5
BitsPerChar == 5
\* load_existing: len(s) == 11
CodeLen == 11
\* format_gt: code8[:4] and code8[4:]
SplitAt == 4

\* Crockford Base32 (no I, L, O, U)
CROCKFORD32 ==
  << "0", "1", "2", "3", "4", "5", "6", "7", "8", "9",
     "A", "B", "C", "D", "E", "F", "G", "H", "J", "K",
     "M", "N", "P", "Q", "R", "S", "T", "V", "W", "X", "Y", "Z" >>

\* the literal "GT-" of format_gt and load_existing
GT_PREFIX == << "G", "T", "-" >>

NL == "\n"

(***************************************************************************)
(* String primitives of Python used by the program.                        *)
(***************************************************************************)
Range(s) == { s[i] : i \in 1..Len(s) }

Lower == << "a", "b", "c", "d", "e", "f", "g", "h", "i", "j", "k", "l", "m",
            "n", "o", "p", "q", "r", "s", "t", "u", "v", "w", "x", "y", "z" >>

Upper == << "A", "B", "C", "D", "E", "F", "G", "H", "I", "J", "K", "L", "M",
            "N", "O", "P", "Q", "R", "S", "T", "U", "V", "W", "X", "Y", "Z" >>

UpperOf ==
  [ c \in Range(Lower) |-> Upper[CHOOSE i \in 1..Len(Lower) : Lower[i] = c] ]

\* str.upper() on one character
UpperChar(c) == IF c \in DOMAIN UpperOf THEN UpperOf[c] ELSE c

\* str.upper()
upper(s) == [ i \in 1..Len(s) |-> UpperChar(s[i]) ]

\* the characters str.strip() removes
Whitespace == { " ", "\t", "\n", "\r", "\f" }

RECURSIVE lstrip(_)
lstrip(s) ==
  IF s # << >> /\ Head(s) \in Whitespace THEN lstrip(Tail(s)) ELSE s

RECURSIVE rstrip(_)
rstrip(s) ==
  IF s # << >> /\ s[Len(s)] \in Whitespace
    THEN rstrip(SubSeq(s, 1, Len(s) - 1))
    ELSE s

\* str.strip()
strip(s) == rstrip(lstrip(s))

\* str.startswith(prefix)
startswith(s, prefix) ==
  /\ Len(s) >= Len(prefix)
  /\ SubSeq(s, 1, Len(prefix)) = prefix

\* reversed(chars)
reversed(s) == [ i \in 1..Len(s) |-> s[Len(s) + 1 - i] ]

\* the positions at which a line of a text file ends: each newline, and the
\* last character when the text does not end with a newline
LineEnds(s) == { i \in 1..Len(s) : s[i] = NL \/ i = Len(s) }

\* the positions at which a line starts: the first character and every
\* character after a newline
LineStarts(s) == { i \in 1..Len(s) : i = 1 \/ s[i - 1] = NL }

\* the k-th smallest element of a set of numbers
Kth(S, k) == CHOOSE x \in S : Cardinality({ y \in S : y <= x }) = k

\* "for line in f": the lines of a text file in order, each with its "\n"
\* when it has one
ReadLines(s) ==
  [ k \in 1..Cardinality(LineEnds(s)) |->
      SubSeq(s, Kth(LineStarts(s), k), Kth(LineEnds(s), k)) ]

(***************************************************************************)
(* random_crockford                                                        *)
(***************************************************************************)
\* the set secrets.randbits(n_chars * 5) draws from
RandBits(n_chars) == 0 .. (2 ^ (n_chars * BitsPerChar) - 1)

\* the for loop: append CROCKFORD32[value & 0b11111], then value >>= 5
RECURSIVE CrockfordLoop(_, _, _)
CrockfordLoop(k, value, chars) ==
  IF k = 0
    THEN chars
    ELSE CrockfordLoop(k - 1,
                       value \div (2 ^ BitsPerChar),
                       Append(chars, CROCKFORD32[(value % (2 ^ BitsPerChar)) + 1]))

\* random_crockford with the drawn integer as a parameter; the loop appends
\* the low digit first and the result is reversed
RandomCrockfordLE(n_chars, value) == CrockfordLoop(n_chars, value, << >>)

random_crockford(n_chars, value) ==
  reversed(CrockfordLoop(n_chars, value, << >>))

(***************************************************************************)
(* format_gt                                                               *)
(***************************************************************************)
format_gt(code8) ==
  GT_PREFIX \o SubSeq(code8, 1, SplitAt) \o << "-" >>
            \o SubSeq(code8, SplitAt + 1, Len(code8))

(***************************************************************************)
(* load_existing                                                           *)
(***************************************************************************)
\* a path that does not exist
NoFile == [exists |-> FALSE, content |-> << >>]

TextFile(chars) == [exists |-> TRUE, content |-> chars]

\* if s.startswith("GT-") and len(s) == 11
KeepLine(s) == startswith(s, GT_PREFIX) /\ Len(s) = CodeLen

\* s = line.strip().upper()
Normalize(line) == upper(strip(line))

\* the for loop over the lines of the open file: existing.add(s) for every
\* line whose s passes the test
load_existing(f) ==
  IF ~f.exists
    THEN {}
    ELSE { s \in { Normalize(line) : line \in Range(ReadLines(f.content)) } :
             KeepLine(s) }

(***************************************************************************)
(* generate                                                                *)
(***************************************************************************)
LoopCondOffByOne(nc, cnt) == Len(nc) <= cnt

\* while len(new_codes) < count
LoopCond(nc, cnt) == Len(nc) < cnt

SeenNever(c, ex) == FALSE

SeenAlways(c, ex) == TRUE

\* if code in existing
Seen(c, ex) == c \in ex

AddExistingDropped(ex, c) == ex

\* existing.add(code)
AddExisting(ex, c) == ex \cup {c}

OpenTruncate(f) == TextFile(<< >>)

\* open(out_path, "a"): the file is created when it is absent
OpenAppend(f) == TextFile(f.content)

\* f.write(code + "\n")
WriteLine(f, c) == TextFile(f.content \o c \o << NL >>)

\* for code in new_codes: f.write(code + "\n")
RECURSIVE WriteCodes(_, _)
WriteCodes(f, codes) ==
  IF codes = << >>
    THEN f
    ELSE WriteCodes(WriteLine(f, Head(codes)), Tail(codes))

\* format_gt(random_crockford(8)) for each integer the random source returns
CodeTable == [ v \in 0 .. MaxValue |-> format_gt(random_crockford(NChars, v)) ]

\* code = format_gt(random_crockford(8)), secrets.randbits(40) returning v
CodeOf(v) == CodeTable[v]

(***************************************************************************)
(* State                                                                   *)
(***************************************************************************)
\* two invocations of the program on the same out_path
Procs == {1, 2}

NoCode == << >>

VARIABLES
  file,           \* the output file: [exists, content]
  pc,             \* pc[p]: "idle", "load", "loop", "done", "aborted"
  count,          \* count[p]: the count argument of generate
  existing,       \* existing[p]: the set existing of generate
  new_codes,      \* new_codes[p]: the list new_codes of generate
  code,           \* code[p]: the local code of the loop body, NoCode before the first iteration
  created,        \* created[p]: the value generate returned
  loaded,         \* loaded[p]: what load_existing returned in this run
  file_at_start,  \* file_at_start[p]: the file when the run started
  rc              \* a call of random_crockford on its own: [pc, n, value, out]

vars == << file, pc, count, existing, new_codes, code, created, loaded,
           file_at_start, rc >>

genvars == << file, pc, count, existing, new_codes, code, created, loaded,
              file_at_start >>

Counts == -1 .. MaxCount

Values == 0 .. MaxValue

Ended(p) == pc[p] \in {"done", "aborted"}

(***************************************************************************)
(* Contents the output file may hold before the first run.                 *)
(***************************************************************************)
\* "GT-ABCD-1234\nbad-line\nGT-ABCD-12\n"
ExampleContent ==
  << "G", "T", "-", "A", "B", "C", "D", "-", "1", "2", "3", "4", NL,
     "b", "a", "d", "-", "l", "i", "n", "e", NL,
     "G", "T", "-", "A", "B", "C", "D", "-", "1", "2", NL >>

\* a line of eleven characters in lower case between blanks
ShortLine ==
  << " ", "g", "t", "-", "a", "b", "c", "d", "-", "1", "2", "3", "\t" >>

LineChoices ==
  { \* a code as generate writes it
    CodeOf(0),
    ShortLine,
    \* a line without the prefix
    << "b", "a", "d", "-", "l", "i", "n", "e" >>,
    \* a blank line
    << >> }

RECURSIVE JoinLines(_, _)
JoinLines(ls, trailing) ==
  IF ls = << >> THEN << >>
  ELSE IF Len(ls) = 1 THEN Head(ls) \o (IF trailing THEN << NL >> ELSE << >>)
  ELSE Head(ls) \o << NL >> \o JoinLines(Tail(ls), trailing)

InitialContents ==
  { JoinLines(ls, t) :
      ls \in UNION { [1..n -> LineChoices] : n \in 0..MaxLines },
      t \in BOOLEAN }
  \cup { ExampleContent }

InitialFiles == { NoFile } \cup { TextFile(c) : c \in InitialContents }

RcOff == [pc |-> "off", n |-> 0, value |-> 0, out |-> << >>]

InitGen(files) ==
  /\ file \in files
  /\ pc = [p \in Procs |-> "idle"]
  /\ count = [p \in Procs |-> 0]
  /\ existing = [p \in Procs |-> {}]
  /\ new_codes = [p \in Procs |-> << >>]
  /\ code = [p \in Procs |-> NoCode]
  /\ created = [p \in Procs |-> 0]
  /\ loaded = [p \in Procs |-> {}]
  /\ file_at_start = [p \in Procs |-> NoFile]

Init == InitGen(InitialFiles) /\ rc = RcOff

(***************************************************************************)
(* Actions                                                                 *)
(***************************************************************************)
\* main: generate(args.count, args.out) is called
Start(p, c) ==
  /\ pc[p] = "idle"
  /\ pc' = [pc EXCEPT ![p] = "load"]
  /\ count' = [count EXCEPT ![p] = c]
  /\ file_at_start' = [file_at_start EXCEPT ![p] = file]
  /\ UNCHANGED << file, existing, new_codes, code, created, loaded, rc >>

\* runs one after the other: a run starts when the runs before it have ended
StartSeq(p, c) ==
  /\ \A q \in Procs : q < p => Ended(q)
  /\ Start(p, c)

\* existing = load_existing(out_path); new_codes = []
Load(p) ==
  /\ pc[p] = "load"
  /\ existing' = [existing EXCEPT ![p] = load_existing(file)]
  /\ loaded' = [loaded EXCEPT ![p] = load_existing(file)]
  /\ new_codes' = [new_codes EXCEPT ![p] = << >>]
  /\ pc' = [pc EXCEPT ![p] = "loop"]
  /\ UNCHANGED << file, count, code, created, file_at_start, rc >>

\* open(out_path, "r") raises an I/O error: the exception leaves generate
\* and main, and the process ends
LoadFail(p) ==
  /\ pc[p] = "load"
  /\ file.exists
  /\ pc' = [pc EXCEPT ![p] = "aborted"]
  /\ UNCHANGED << file, count, existing, new_codes, code, created, loaded,
                  file_at_start, rc >>

DrawWritingAtOnce(p, v) ==
  /\ pc[p] = "loop"
  /\ LoopCond(new_codes[p], count[p])
  /\ LET c == CodeOf(v)
     IN  /\ code' = [code EXCEPT ![p] = c]
         /\ IF Seen(c, existing[p])
              THEN UNCHANGED << existing, new_codes, file >>
              ELSE /\ existing' = [existing EXCEPT ![p] = AddExisting(existing[p], c)]
                   /\ new_codes' = [new_codes EXCEPT ![p] = Append(new_codes[p], c)]
                   /\ file' = WriteLine(OpenAppend(file), c)
  /\ UNCHANGED << pc, count, created, loaded, file_at_start, rc >>

\* one iteration of the while loop, secrets.randbits(40) returning v
Draw(p, v) ==
  /\ pc[p] = "loop"
  /\ LoopCond(new_codes[p], count[p])
  /\ LET c == CodeOf(v)
     IN  /\ code' = [code EXCEPT ![p] = c]
         /\ IF Seen(c, existing[p])
              THEN UNCHANGED << existing, new_codes >>
              ELSE /\ existing' = [existing EXCEPT ![p] = AddExisting(existing[p], c)]
                   /\ new_codes' = [new_codes EXCEPT ![p] = Append(new_codes[p], c)]
  /\ UNCHANGED << file, pc, count, created, loaded, file_at_start, rc >>

\* the loop has ended: the with block appends new_codes and generate returns
AppendCodes(p) ==
  /\ pc[p] = "loop"
  /\ ~LoopCond(new_codes[p], count[p])
  /\ file' = WriteCodes(OpenAppend(file), new_codes[p])
  /\ created' = [created EXCEPT ![p] = Len(new_codes[p])]
  /\ pc' = [pc EXCEPT ![p] = "done"]
  /\ UNCHANGED << count, existing, new_codes, code, loaded, file_at_start, rc >>

\* open(out_path, "a") raises an I/O error before anything is written: the
\* exception leaves generate and main, and the process ends
AppendFail(p) ==
  /\ pc[p] = "loop"
  /\ ~LoopCond(new_codes[p], count[p])
  /\ pc' = [pc EXCEPT ![p] = "aborted"]
  /\ UNCHANGED << file, count, existing, new_codes, code, created, loaded,
                  file_at_start, rc >>

Step(p) ==
  \/ Load(p)
  \/ LoadFail(p)
  \/ \E v \in Values : Draw(p, v)
  \/ AppendCodes(p)
  \/ AppendFail(p)

\* runs of the program one after the other on the same file
Next ==
  \E p \in Procs :
    \/ \E c \in Counts : StartSeq(p, c)
    \/ Step(p)

Spec == Init /\ [][Next]_vars

(***************************************************************************)
(* The same runs under the scheduling of a single-threaded process: a run  *)
(* that can take its next step takes it, and while the loop keeps running  *)
(* every value of the random source is drawn again and again.              *)
(***************************************************************************)
RunStep == \E p \in Procs : Load(p) \/ LoadFail(p) \/ AppendCodes(p) \/ AppendFail(p)

DrawValue(v) == \E p \in Procs : Draw(p, v)

Fairness ==
  /\ WF_vars(RunStep)
  /\ \A v \in Values : WF_vars(DrawValue(v))

\* the files these runs start from
FairFiles ==
  { NoFile,
    TextFile(<< >>),
    TextFile(ShortLine \o << NL >>),
    TextFile(CodeOf(0)) }

InitFair == InitGen(FairFiles) /\ rc = RcOff

FairSpec == InitFair /\ [][Next]_vars /\ Fairness

(***************************************************************************)
(* Two invocations running at the same time on the same file: nothing in   *)
(* the program orders the steps of one against the steps of the other.     *)
(***************************************************************************)
NextConc ==
  \E p \in Procs :
    \/ \E c \in Counts : Start(p, c)
    \/ Step(p)

SpecConc == Init /\ [][NextConc]_vars

(***************************************************************************)
(* random_crockford called on its own, for every n in 1 .. MaxN and every  *)
(* value randbits can return.                                              *)
(***************************************************************************)
InitRC ==
  /\ InitGen({ NoFile })
  /\ rc \in { [pc |-> "call", n |-> n, value |-> v, out |-> << >>] :
                n \in 1..MaxN, v \in 0 .. (2 ^ (MaxN * BitsPerChar) - 1) }
  /\ rc.value \in RandBits(rc.n)

RcCall ==
  /\ rc.pc = "call"
  /\ rc' = [rc EXCEPT !.pc = "ret", !.out = random_crockford(rc.n, rc.value)]
  /\ UNCHANGED genvars

NextRC == RcCall

SpecRC == InitRC /\ [][NextRC]_vars

(***************************************************************************)
(* Properties                                                              *)
(***************************************************************************)
\* no later run has started: the file is as run p left it
LastRun(p) == \A q \in Procs : q > p => pc[q] = "idle"

PairwiseDistinct(s) ==
  \A i, j \in 1..Len(s) : i # j => s[i] # s[j]

\* the lines of a text, without their line ends
LinesOf(chars) ==
  LET ls == ReadLines(chars)
  IN  [ i \in 1..Len(ls) |->
          IF ls[i][Len(ls[i])] = NL THEN SubSeq(ls[i], 1, Len(ls[i]) - 1)
                                    ELSE ls[i] ]

\* the codes the bounded random source can produce that are not in ex
FreeCodes(ex) == { v \in Values : CodeOf(v) \notin ex }

Max(a, b) == IF a >= b THEN a ELSE b

\* C1: when the generation loop of a run has finished, the accepted codes
\* new_codes are pairwise distinct and none of them is in the set
\* load_existing returned at the start of that run.
C1_DistinctAndFresh ==
  \A p \in Procs :
    (pc[p] \in {"loop", "done", "aborted"} /\ ~LoopCond(new_codes[p], count[p]))
      => /\ PairwiseDistinct(new_codes[p])
         /\ Range(new_codes[p]) \cap loaded[p] = {}

\* a run that loaded a line from the file and accepted a batch of two codes
C1_Witness ==
  \E p \in Procs :
    /\ pc[p] = "done"
    /\ count[p] = 2
    /\ Len(new_codes[p]) = 2
    /\ loaded[p] # {}

\* C2: of two runs executed one after the other on the same file, the later
\* run accepts no code the earlier run accepted, whatever the file held
\* before the first run.
C2_NoRepeatAcrossRuns ==
  (pc[1] = "done" /\ pc[2] \in {"loop", "done"})
    => Range(new_codes[1]) \cap Range(new_codes[2]) = {}

\* C3 as stated: a run with count <= 0 iterates zero times, returns 0 and
\* leaves the file's existence and content as they were.
C3_FileStateUnchanged ==
  \A p \in Procs :
    (pc[p] = "done" /\ count[p] <= 0 /\ LastRun(p))
      => /\ code[p] = NoCode
         /\ new_codes[p] = << >>
         /\ created[p] = 0
         /\ file = file_at_start[p]

\* C3 as amended: a run with count <= 0 iterates zero times, returns 0 and
\* leaves the file's content as it was; the file exists afterwards, created
\* empty when it was absent.
C3_ContentUnchanged ==
  \A p \in Procs :
    (pc[p] = "done" /\ count[p] <= 0 /\ LastRun(p))
      => /\ code[p] = NoCode
         /\ new_codes[p] = << >>
         /\ created[p] = 0
         /\ file.content = file_at_start[p].content
         /\ file.exists

\* a run with a negative count that found no file and left an empty one
C3_Witness ==
  \E p \in Procs :
    /\ pc[p] = "done"
    /\ count[p] < 0
    /\ LastRun(p)
    /\ ~file_at_start[p].exists
    /\ file = TextFile(<< >>)

\* a run that ended "done" accepted max(count, 0) codes and returned their number
DoneMeansFullBatch(p) ==
  pc[p] = "done"
    => /\ Len(new_codes[p]) = Max(count[p], 0)
       /\ created[p] = Len(new_codes[p])

\* C4 as stated: every run, for every count and every loaded set, eventually
\* ends, having appended its batch or aborted on an I/O failure.
C4_AlwaysTerminates ==
  \A p \in Procs : (pc[p] = "load") ~> Ended(p)

\* C4 as amended: a run whose count is at most the number of codes outside
\* the set it loads eventually ends, either with max(count, 0) codes
\* accepted and appended or aborted on an I/O failure.
C4_TerminatesWhenCodesRemain ==
  /\ \A p \in Procs :
       (pc[p] = "load" /\ count[p] <= Cardinality(FreeCodes(load_existing(file))))
         ~> Ended(p)
  /\ [](\A p \in Procs : DoneMeansFullBatch(p))

\* a run that asked for as many codes as the random source can give has ended
C4_Witness ==
  \E p \in Procs :
    /\ pc[p] = "done"
    /\ count[p] = Cardinality(Values)
    /\ Range(new_codes[p]) = { CodeOf(v) : v \in Values }

\* C5: after two successive appends of batches B1 then B2 the last lines of
\* the file are the codes of B1 in order followed by the codes of B2 in
\* order, each on a line by itself, whatever the file held before.
C5_BatchesOnOwnLines ==
  (pc[1] = "done" /\ pc[2] = "done")
    => LET ls == LinesOf(file.content)
           bs == new_codes[1] \o new_codes[2]
       IN  /\ Len(ls) >= Len(bs)
           /\ SubSeq(ls, Len(ls) - Len(bs) + 1, Len(ls)) = bs

\* C6: after a run the file's content before the run is a prefix of its
\* content, and what follows the prefix is the run's accepted codes in
\* order, each followed by a newline.
C6_AppendOnly ==
  \A p \in Procs :
    (pc[p] # "idle" /\ LastRun(p)) =>
      LET old == file_at_start[p].content
          new == file.content
          n   == Len(new_codes[p])
      IN  /\ Len(new) >= Len(old)
          /\ SubSeq(new, 1, Len(old)) = old
          /\ file_at_start[p].exists => file.exists
          /\ pc[p] = "done" =>
               /\ file.exists
               /\ Len(new) = Len(old) + n * 13
               /\ \A k \in 1..n :
                    LET at == Len(old) + (k - 1) * 13
                    IN  /\ SubSeq(new, at + 1, at + 12) = new_codes[p][k]
                        /\ new[at + 13] = NL

\* a run that appended two codes to a file that already held text
C6_Witness ==
  \E p \in Procs :
    /\ pc[p] = "done"
    /\ LastRun(p)
    /\ file_at_start[p].content # << >>
    /\ Len(new_codes[p]) = 2
    /\ Len(file.content) = Len(file_at_start[p].content) + 26

\* the lines of a text as the stretches between newlines
LineSpans(chars) ==
  { << i, j >> \in (1..Len(chars)) \X (1..Len(chars)) :
      /\ i <= j
      /\ i = 1 \/ chars[i - 1] = NL
      /\ j = Len(chars) \/ chars[j + 1] = NL
      /\ \A k \in i..j : chars[k] # NL }

\* { upper(strip(l)) : l a line, upper(strip(l)) starts with "GT-" and has length 11 }
ShapedLines(chars) ==
  { s \in { upper(strip(SubSeq(chars, sp[1], sp[2]))) : sp \in LineSpans(chars) } :
      /\ Len(s) = 11
      /\ s[1] = "G" /\ s[2] = "T" /\ s[3] = "-" }

\* C7: load_existing returns exactly the upper-cased, stripped lines of the
\* file that start with "GT-" and have length 11; a path that does not exist
\* gives the empty set and is not created; the content
\* "GT-ABCD-1234\nbad-line\nGT-ABCD-12\n" gives exactly {"GT-ABCD-1234"}.
C7_LoadExisting ==
  \A p \in Procs :
    (pc[p] = "loop" /\ new_codes[p] = << >>)
      => /\ loaded[p] = ShapedLines(file_at_start[p].content)
         /\ existing[p] = loaded[p]
         /\ ~file_at_start[p].exists => (loaded[p] = {} /\ ~file.exists)
         /\ file_at_start[p].content = ExampleContent
              => loaded[p] =
                   { << "G", "T", "-", "A", "B", "C", "D", "-", "1", "2", "3", "4" >> }

\* the value of a string read as a base-32 number, most significant digit first
RECURSIVE Decode(_)
Decode(s) ==
  IF s = << >>
    THEN 0
    ELSE 32 * Decode(SubSeq(s, 1, Len(s) - 1))
           + (CHOOSE d \in 0..31 : CROCKFORD32[d + 1] = s[Len(s)])

\* C8: random_crockford(n) with drawn value v returns the n-digit big-endian
\* base-32 representation of v over the alphabet: length n, character i
\* (from 0) is CROCKFORD32[(v div 32^(n-1-i)) mod 32], and v is recovered
\* from the string, so distinct values give distinct strings.
C8_BigEndianBase32 ==
  rc.pc = "ret" =>
    /\ Len(rc.out) = rc.n
    /\ \A i \in 0 .. rc.n - 1 :
         rc.out[i + 1] = CROCKFORD32[((rc.value \div (32 ^ (rc.n - 1 - i))) % 32) + 1]
    /\ Range(rc.out) \subseteq Range(CROCKFORD32)
    /\ Cardinality(Range(CROCKFORD32)) = 32
    /\ Decode(rc.out) = rc.value

\* the value 1 * 32 + 10 has been encoded as "1A"
C8_Witness ==
  /\ rc.pc = "ret"
  /\ rc.n = 2
  /\ rc.value = 42
  /\ rc.out = << "1", "A" >>

\* C9: with two invocations running at the same time nothing ties the codes
\* one accepts to the codes the other accepts: the set a process tests a
\* candidate against is what it loaded plus its own batch, so after both
\* loaded the same set both can accept the same code and the file can hold
\* that code on two lines.
C9_NoSharedView ==
  \A p \in Procs :
    pc[p] \in {"loop", "done"}
      => existing[p] = loaded[p] \cup Range(new_codes[p])

\* both invocations loaded the same set, both appended, and a code they both
\* accepted is on two lines of the file
C9_Witness ==
  /\ pc[1] = "done"
  /\ pc[2] = "done"
  /\ file_at_start[1] = file_at_start[2]
  /\ loaded[1] = loaded[2]
  /\ \E c \in Range(new_codes[1]) \cap Range(new_codes[2]) :
       LET ls == LinesOf(file.content)
       IN  \E i, j \in 1..Len(ls) : i < j /\ ls[i] = c /\ ls[j] = c

\* C10: within a run the file is not written during load or during the
\* generation loop: it stays as it was at the start of the run, and once it
\* differs the run has left the loop with count entries in new_codes.
C10_PhasesOrdered ==
  \A p \in Procs :
    /\ pc[p] \in {"load", "loop"} => file = file_at_start[p]
    /\ (pc[p] # "idle" /\ LastRun(p) /\ file # file_at_start[p])
         => (pc[p] = "done" /\ ~LoopCond(new_codes[p], count[p]))

\* a run still in its loop with two codes accepted and nothing appended yet
C10_Witness ==
  \E p \in Procs :
    /\ pc[p] = "loop"
    /\ Len(new_codes[p]) = 2
    /\ LoopCond(new_codes[p], count[p])
    /\ file = file_at_start[p]
    /\ file.exists

====
